---- MODULE Spec2Model ----
(***************************************************************************)
(* StagehandManager (src/src/stagehand.ts): the lifecycle manager of one   *)
(* browser session.                                                        *)
(*                                                                         *)
(* The manager's two slots, `stagehand` and `initPromise`, are shared by   *)
(* every async call.  JavaScript runs one job to completion and then       *)
(* drains the microtask queue before it takes the next event, so a step of *)
(* the model is one event together with the continuations it wakes:        *)
(*   - a call of a public method, up to its first await on real I/O;       *)
(*   - the settling of a session's startup, which settles the promise of   *)
(*     init() and resumes, one after the other, every ensure() that awaits *)
(*     it, and then the operations that awaited those ensure() calls;      *)
(*   - the settling of a session's close(), which resumes the close() that *)
(*     awaits it;                                                          *)
(*   - the settling of a page call, which resumes the operation;           *)
(*   - the closing of a session from outside.                              *)
(* Sessions are numbered in launch order and the promise returned by the   *)
(* n-th init() carries the same number as the session it constructs.       *)
(***************************************************************************)
EXTENDS Integers, FiniteSets, Sequences, TLC

NumCallers == 2
MaxLaunches == 3

Callers == 1..NumCallers
Sessions == 1..MaxLaunches
Null == 0

VARIABLES
    stagehand,      \* this.stagehand: Null or the session held
    initPromise,    \* this.initPromise: Null or the promise of the n-th init()
    launches,       \* number of Stagehand objects constructed and started
    pstate,         \* per init() promise: none, pending, fulfilled, rejected
    isClosed,       \* per session: the Stagehand object's isClosed flag
    pc,             \* per caller: the await it is suspended at
    on,             \* per caller: the promise or session it awaits
    out,            \* per caller: what the step just taken returned or threw to it
    afterClose,     \* a close() has returned and no ensure() has begun since
    everClose,      \* some close() has begun since construction
    args,           \* a function studied by itself: what it is given
    ret             \* a function studied by itself: what it did or returned

vars == <<stagehand, initPromise, launches, pstate, isClosed, pc, on, out,
          afterClose, everClose, args, ret>>

\* the manager and its callers
mgr == <<stagehand, initPromise, launches, pstate, isClosed, pc, on, out,
         afterClose, everClose>>

\* nothing was returned to the caller in the step just taken
NoOut == [from |-> "none", kind |-> "none", id |-> 0]

\* a call that was at `from` hands its caller `kind` (a handle, an error, ...)
\* about session or promise `id`
Returns(from, kind, id) == [from |-> from, kind |-> kind, id |-> id]

\* only caller c got something in this step
OnlyOut(c, r) == [d \in Callers |-> IF d = c THEN r ELSE NoOut]

Quiet == [d \in Callers |-> NoOut]

\* the manager as its constructor leaves it (lines 53-61), nobody calling
Fresh ==
    /\ stagehand = Null
    /\ initPromise = Null
    /\ launches = 0
    /\ pstate = [s \in Sessions |-> "none"]
    /\ isClosed = [s \in Sessions |-> FALSE]
    /\ pc = [c \in Callers |-> "idle"]
    /\ on = [c \in Callers |-> 0]
    /\ out = Quiet
    /\ afterClose = FALSE
    /\ everClose = FALSE

Init ==
    /\ Fresh
    /\ args = <<>>
    /\ ret = <<>>

\* a variant of FastPath that never returns the held handle at once
FastPathNever == FALSE

\* ensure(), line 64: a handle is held and its session is not marked closed
FastPath == stagehand # Null /\ ~isClosed[stagehand]

\* a variant of IsStale that never notices a closed session
IsStaleNever == FALSE

\* ensure(), line 65: the held handle's session is marked closed
IsStale == stagehand # Null /\ isClosed[stagehand]

\* ensure(), lines 65-68: the two slots after the stale-handle check
AfterStale == IF IsStale THEN <<Null, Null>> ELSE <<stagehand, initPromise>>

\* a variant of NeedsInit without the single-flight gate
NeedsInitAlways(ip) == TRUE

\* ensure(), line 69: the gate that decides whether init() is called
NeedsInit(ip) == ip = Null

\* a session that was started and is not marked closed
Alive(s) == pstate[s] = "fulfilled" /\ ~isClosed[s]

\* getPage(), line 77: the check on the handle slot
GetPageThrows(sh) == sh = Null

\* an operation after its `await this.ensure()` returned, with `sh` in the
\* handle slot: getPage() (lines 76-79), then the page call it awaits.
\* The result is <<pc, on, out>> of the caller.
OpContinue(from, sh) ==
    IF GetPageThrows(sh)
    THEN <<"idle", 0, Returns(from, "notinit", 0)>>
    ELSE <<"op_await", sh, NoOut>>

\* ensure(), lines 65-71: the slow path down to `await this.initPromise`;
\* init() runs synchronously up to its own await, so the launch is part of it
EnsureSlow ==
    LET ip == AfterStale[2]
    IN  /\ ~FastPath
        /\ IF NeedsInit(ip)
           THEN /\ launches < MaxLaunches
                /\ launches' = launches + 1
                /\ pstate' = [pstate EXCEPT ![launches + 1] = "pending"]
                /\ initPromise' = launches + 1
           ELSE /\ initPromise' = ip
                /\ UNCHANGED <<launches, pstate>>

\* a variant of Adopt that returns the awaited session without storing it
AdoptNothing(sh, p, st) == sh

\* ensure(), lines 72-73 when the awaited promise p has settled with `st`:
\* the handle slot afterwards, given the slot `sh` before
Adopt(sh, p, st) == IF st = "fulfilled" THEN p ELSE sh

\* a caller invokes ensure() directly (the service's start, part_001:236)
EnsureCall(c) ==
    /\ pc[c] = "idle"
    /\ afterClose' = FALSE
    /\ \/ /\ FastPath
          /\ out' = OnlyOut(c, Returns("ensure", "handle", stagehand))
          /\ UNCHANGED <<stagehand, initPromise, launches, pstate, pc, on>>
       \/ /\ EnsureSlow
          /\ LET st == pstate'[initPromise']
             IN  /\ stagehand' = Adopt(AfterStale[1], initPromise', st)
                 /\ IF st = "pending"
                    THEN /\ pc' = [pc EXCEPT ![c] = "ensure_await"]
                         /\ on' = [on EXCEPT ![c] = initPromise']
                         /\ out' = Quiet
                    ELSE /\ out' = OnlyOut(c, Returns("ensure",
                                       IF st = "fulfilled" THEN "handle" ELSE "error",
                                       initPromise'))
                         /\ UNCHANGED <<pc, on>>
    /\ UNCHANGED <<isClosed, everClose>>
    /\ UNCHANGED <<args, ret>>

\* a caller invokes navigate/act/extract/observe/screenshot: the first
\* statement of each is `await this.ensure()`, the second `this.getPage()`
OpCall(c) ==
    /\ pc[c] = "idle"
    /\ afterClose' = FALSE
    /\ \/ /\ FastPath
          /\ pc' = [pc EXCEPT ![c] = OpContinue("op", stagehand)[1]]
          /\ on' = [on EXCEPT ![c] = OpContinue("op", stagehand)[2]]
          /\ out' = OnlyOut(c, OpContinue("op", stagehand)[3])
          /\ UNCHANGED <<stagehand, initPromise, launches, pstate>>
       \/ /\ EnsureSlow
          /\ LET st == pstate'[initPromise']
             IN  /\ stagehand' = Adopt(AfterStale[1], initPromise', st)
                 /\ IF st = "pending"
                    THEN /\ pc' = [pc EXCEPT ![c] = "op_ensure_await"]
                         /\ on' = [on EXCEPT ![c] = initPromise']
                         /\ out' = Quiet
                    ELSE IF st = "fulfilled"
                    THEN /\ pc' = [pc EXCEPT ![c] = OpContinue("op", stagehand')[1]]
                         /\ on' = [on EXCEPT ![c] = OpContinue("op", stagehand')[2]]
                         /\ out' = OnlyOut(c, OpContinue("op", stagehand')[3])
                    ELSE /\ out' = OnlyOut(c, Returns("op", "error", initPromise'))
                         /\ UNCHANGED <<pc, on>>
    /\ UNCHANGED <<isClosed, everClose>>
    /\ UNCHANGED <<args, ret>>

\* a variant of Awaiters in which a settled promise resumes one awaiter only
AwaitersFirstOnly(s) ==
    LET W == {c \in Callers : pc[c] \in {"ensure_await", "op_ensure_await"} /\ on[c] = s}
    IN  {c \in W : \A d \in W : c <= d}

\* the callers whose ensure() awaits promise s
Awaiters(s) == {c \in Callers : pc[c] \in {"ensure_await", "op_ensure_await"} /\ on[c] = s}

\* init(), lines 132-135: the session's startup succeeds and init() returns
\* it; every ensure() awaiting the promise resumes (lines 72-73), and then
\* the operations that awaited those
InitSucceed(s) ==
    /\ pstate[s] = "pending"
    /\ pstate' = [pstate EXCEPT ![s] = "fulfilled"]
    /\ stagehand' = IF Awaiters(s) # {} THEN Adopt(stagehand, s, "fulfilled") ELSE stagehand
    /\ pc' = [c \in Callers |->
                IF c \notin Awaiters(s) THEN pc[c]
                ELSE IF pc[c] = "ensure_await" THEN "idle"
                ELSE OpContinue(pc[c], stagehand')[1]]
    /\ on' = [c \in Callers |->
                IF c \notin Awaiters(s) THEN on[c]
                ELSE IF pc[c] = "ensure_await" THEN 0
                ELSE OpContinue(pc[c], stagehand')[2]]
    /\ out' = [c \in Callers |->
                IF c \notin Awaiters(s) THEN NoOut
                ELSE IF pc[c] = "ensure_await" THEN Returns(pc[c], "handle", stagehand')
                ELSE OpContinue(pc[c], stagehand')[3]]
    /\ UNCHANGED <<initPromise, launches, isClosed, afterClose, everClose>>
    /\ UNCHANGED <<args, ret>>

\* init(), line 132: the session's startup throws and init() rejects; every
\* ensure() awaiting the promise throws at line 72, and so does the operation
\* that awaited it.  Neither slot is written.
InitFail(s) ==
    /\ pstate[s] = "pending"
    /\ pstate' = [pstate EXCEPT ![s] = "rejected"]
    /\ stagehand' = IF Awaiters(s) # {} THEN Adopt(stagehand, s, "rejected") ELSE stagehand
    /\ pc' = [c \in Callers |-> IF c \in Awaiters(s) THEN "idle" ELSE pc[c]]
    /\ on' = [c \in Callers |-> IF c \in Awaiters(s) THEN 0 ELSE on[c]]
    /\ out' = [c \in Callers |->
                IF c \in Awaiters(s) THEN Returns(pc[c], "error", s) ELSE NoOut]
    /\ UNCHANGED <<initPromise, launches, isClosed, afterClose, everClose>>
    /\ UNCHANGED <<args, ret>>

\* a variant of SlotsAfterOp that drops the session when a page call throws
SlotsAfterOpInvalidate(ok) == IF ok THEN <<stagehand, initPromise>> ELSE <<Null, Null>>

\* navigate/act/extract/observe/screenshot, lines 138-177: none of them
\* writes a slot after its page call, whether it returned or threw
SlotsAfterOp(ok) == <<stagehand, initPromise>>

\* lines 141-142, 149, 158-160, 166, 174: the awaited page call returns or
\* throws, and the operation passes the result or the error on
OpSettle(c) ==
    /\ pc[c] = "op_await"
    /\ \E ok \in BOOLEAN :
        /\ out' = OnlyOut(c, Returns(pc[c], IF ok THEN "opok" ELSE "operr", on[c]))
        /\ stagehand' = SlotsAfterOp(ok)[1]
        /\ initPromise' = SlotsAfterOp(ok)[2]
    /\ pc' = [pc EXCEPT ![c] = "idle"]
    /\ on' = [on EXCEPT ![c] = 0]
    /\ UNCHANGED <<launches, pstate, isClosed, afterClose, everClose>>
    /\ UNCHANGED <<args, ret>>

\* close(), line 180: the guard around the whole body
CloseGuard == stagehand # Null

\* a variant of SlotsWithoutHandle with the clearing moved out of the guard
SlotsWithoutHandleCleared == <<Null, Null>>

\* close(), lines 186-187 sit inside the guarded block: the slots are left
\* as they are when no handle is held
SlotsWithoutHandle == <<stagehand, initPromise>>

\* close(), lines 179-182 (the whole of 179-190 when no handle is held)
CloseCall(c) ==
    /\ pc[c] = "idle"
    /\ IF CloseGuard
       THEN /\ pc' = [pc EXCEPT ![c] = "close_await"]
            /\ on' = [on EXCEPT ![c] = stagehand]
            /\ out' = Quiet
            /\ UNCHANGED <<stagehand, initPromise, afterClose>>
       ELSE /\ out' = OnlyOut(c, Returns("close", "noop", 0))
            /\ afterClose' = TRUE
            /\ stagehand' = SlotsWithoutHandle[1]
            /\ initPromise' = SlotsWithoutHandle[2]
            /\ UNCHANGED <<pc, on>>
    /\ everClose' = TRUE
    /\ UNCHANGED <<launches, pstate, isClosed>>
    /\ UNCHANGED <<args, ret>>

\* a variant of CloseOutcome without the catch
CloseOutcomeRethrow(settled) == IF settled = "close_fail" THEN "error" ELSE "closed"

\* close(), lines 181-185: what close() hands its caller after the awaited
\* close settled with `settled`
CloseOutcome(settled) == "closed"

\* close(), lines 186-187: the slots after the awaited close settled
SlotsAfterClose(settled) == <<Null, Null>>

\* the session's own close() settles and close() resumes, lines 183-189.
\* An orderly close marks the session closed; one that throws leaves the
\* flag as it was.
CloseResume(c) ==
    /\ pc[c] = "close_await"
    /\ \E settled \in {"close_ok", "close_fail"} :
        /\ isClosed' = IF settled = "close_ok"
                       THEN [isClosed EXCEPT ![on[c]] = TRUE] ELSE isClosed
        /\ stagehand' = SlotsAfterClose(settled)[1]
        /\ initPromise' = SlotsAfterClose(settled)[2]
        /\ out' = OnlyOut(c, Returns(settled, CloseOutcome(settled), on[c]))
    /\ pc' = [pc EXCEPT ![c] = "idle"]
    /\ on' = [on EXCEPT ![c] = 0]
    /\ afterClose' = TRUE
    /\ UNCHANGED <<launches, pstate, everClose>>
    /\ UNCHANGED <<args, ret>>

\* the session is closed from outside the manager (the browser window is
\* closed, the cloud session ends, or the session's own close() sets the
\* flag before it settles): its isClosed flag turns true
ExternalClose(s) ==
    /\ Alive(s)
    /\ isClosed' = [isClosed EXCEPT ![s] = TRUE]
    /\ out' = Quiet
    /\ UNCHANGED <<stagehand, initPromise, launches, pstate, pc, on, afterClose, everClose>>
    /\ UNCHANGED <<args, ret>>

Next ==
    \/ \E c \in Callers : EnsureCall(c)
    \/ \E c \in Callers : OpCall(c)
    \/ \E c \in Callers : OpSettle(c)
    \/ \E c \in Callers : CloseCall(c)
    \/ \E c \in Callers : CloseResume(c)
    \/ \E s \in Sessions : InitSucceed(s)
    \/ \E s \in Sessions : InitFail(s)
    \/ \E s \in Sessions : ExternalClose(s)

Spec == Init /\ [][Next]_vars

\* init(), line 132: a startup that was begun does not stay pending for ever;
\* the session's init() settles one way or the other
StartupSettles == \A s \in Sessions : WF_vars(InitSucceed(s) \/ InitFail(s))

LiveSpec == Init /\ [][Next]_vars /\ StartupSettles

(***************************************************************************)
(* init(), lines 81-131, by itself: from the configuration and the         *)
(* environment to the directory it creates and the options it constructs   *)
(* the session with.  A string is a TLA+ string; a string whose parts      *)
(* matter (a path, a model name) is the sequence of its parts.             *)
(***************************************************************************)

\* the value of an optional config field or an environment variable that
\* is not set
Undefined == "undefined"

\* what an optional string can be: not set, empty, or a text of its own
Optional(text) == {Undefined, "", text}

Models ==
    { <<"anthropic", "/", "claude-haiku">>,
      <<"moonshotai", "/", "moonshot-v1">>,
      <<"gpt-4o">> }

ProfileDirs ==
    { <<"~", "/", "profile">>, <<"~">>, <<"/", "srv", "/", "profile">> }

\* os.homedir()
HomeDir == <<"/", "home", "/", "user">>

\* StagehandConfig, lines 11-19, as parsePluginConfig (part_001:46-57)
\* produces it
Configs ==
    [ model : Models,
      modelApiKey : Optional("cfg.modelApiKey"),
      browserbaseApiKey : Optional("cfg.browserbaseApiKey"),
      browserbaseProjectId : Optional("cfg.browserbaseProjectId"),
      profileDir : ProfileDirs,
      verbose : {1} ]

\* process.env, the four variables init() reads
Envs ==
    [ ANTHROPIC_API_KEY : Optional("$ANTHROPIC_API_KEY"),
      OPENAI_API_KEY : Optional("$OPENAI_API_KEY"),
      BROWSERBASE_API_KEY : Optional("$BROWSERBASE_API_KEY"),
      BROWSERBASE_PROJECT_ID : Optional("$BROWSERBASE_PROJECT_ID") ]

\* JavaScript's truthiness of a string or undefined
Truthy(v) == v # Undefined /\ v # ""

\* a || b
Or(a, b) == IF Truthy(a) THEN a ELSE b

\* a && b
And(a, b) == IF Truthy(a) THEN b ELSE a

\* { ...a, ...b }
Spread(a, b) == [k \in DOMAIN a \cup DOMAIN b |-> IF k \in DOMAIN b THEN b[k] ELSE a[k]]

\* a variant of ModelApiKey that asks the two environment variables in the
\* other order
ModelApiKeyOpenAiFirst(cfg, env) ==
    Or(Or(cfg.modelApiKey, env.OPENAI_API_KEY), env.ANTHROPIC_API_KEY)

\* init(), lines 85-87
ModelApiKey(cfg, env) ==
    Or(Or(cfg.modelApiKey, env.ANTHROPIC_API_KEY), env.OPENAI_API_KEY)

\* init(), lines 89-93
CommonOpts(cfg, env) ==
    Spread([modelName |-> cfg.model, verbose |-> cfg.verbose],
           IF Truthy(ModelApiKey(cfg, env))
           THEN [modelClientOptions |-> [apiKey |-> ModelApiKey(cfg, env)]]
           ELSE [k \in {} |-> k])

\* init(), line 96
BbApiKey(cfg, env) == Or(cfg.browserbaseApiKey, env.BROWSERBASE_API_KEY)

\* init(), line 97
BbProjectId(cfg, env) == Or(cfg.browserbaseProjectId, env.BROWSERBASE_PROJECT_ID)

\* a variant of UseBrowserbase that is content with either of the two
UseBrowserbaseEither(cfg, env) == Truthy(Or(BbApiKey(cfg, env), BbProjectId(cfg, env)))

\* init(), line 98
UseBrowserbase(cfg, env) == Truthy(And(BbApiKey(cfg, env), BbProjectId(cfg, env)))

\* path.join(a, b) for an absolute a without a trailing separator and a
\* relative b without dots
PathJoin(a, b) ==
    IF b = <<>> THEN a
    ELSE IF Head(b) = "/" THEN a \o b
    ELSE a \o <<"/">> \o b

\* init(), lines 110-112
ProfileDir(cfg) ==
    IF cfg.profileDir # <<>> /\ Head(cfg.profileDir) = "~"
    THEN PathJoin(HomeDir, Tail(cfg.profileDir))
    ELSE cfg.profileDir

\* init(), lines 100-132: what init() does, in order, down to its await
InitSteps(cfg, env) ==
    IF UseBrowserbase(cfg, env)
    THEN << [op |-> "new Stagehand",
             opts |-> Spread([env |-> "BROWSERBASE",
                              apiKey |-> BbApiKey(cfg, env),
                              projectId |-> BbProjectId(cfg, env)],
                             CommonOpts(cfg, env))],
            [op |-> "stagehand.init"] >>
    ELSE << [op |-> "fs.mkdirSync", path |-> ProfileDir(cfg)],
            [op |-> "new Stagehand",
             opts |-> Spread([env |-> "LOCAL",
                              localBrowserLaunchOptions |->
                                  [headless |-> FALSE,
                                   userDataDir |-> ProfileDir(cfg),
                                   viewport |-> [width |-> 1280, height |-> 900],
                                   preserveUserDataDir |-> TRUE,
                                   args |-> <<"--no-first-run", "--disable-infobars">>]],
                             CommonOpts(cfg, env))],
            [op |-> "stagehand.init"] >>

\* a manager is constructed with some configuration in some environment
LaunchInit ==
    /\ Fresh
    /\ args \in [config : Configs, env : Envs]
    /\ ret = <<>>

\* the first ensure() calls init(), which runs down to its await
InitRun ==
    /\ ret = <<>>
    /\ ret' = InitSteps(args.config, args.env)
    /\ UNCHANGED <<args, mgr>>

LaunchNext == InitRun

LaunchSpec == LaunchInit /\ [][LaunchNext]_vars

(***************************************************************************)
(* buildZodSchema(), lines 32-50, by itself.  An object is its own         *)
(* properties and its prototype; a value to validate is, per field, the    *)
(* primitive type of what it holds.                                        *)
(***************************************************************************)

FieldNames == {"name", "price", "__proto__"}

TypeNames == {"string", "number", "boolean", "date"}

\* the maps a caller of browser_extract can pass (part_001:152-156): parsed
\* from JSON, so every field name is an own property of the map
Raws == UNION {[S -> TypeNames] : S \in SUBSET FieldNames}

\* the switch, lines 35-47
ZodFor(type) ==
    CASE type = "string" -> "ZodString"
      [] type = "number" -> "ZodNumber"
      [] type = "boolean" -> "ZodBoolean"
      [] OTHER -> "ZodString"

\* line 33: {}
EmptyObject == [own |-> [k \in {} |-> k], proto |-> "Object.prototype"]

\* shape[key] = v on an object made by {}: an own property, except that the
\* key __proto__ is the accessor inherited from Object.prototype, whose
\* setter replaces the prototype when v is an object
Assign(shape, key, v) ==
    IF key = "__proto__"
    THEN [shape EXCEPT !.proto = v]
    ELSE [shape EXCEPT !.own = Spread(@, [k \in {key} |-> v])]

\* the loop over Object.entries(raw), lines 34-48, with `todo` the keys not
\* yet visited
RECURSIVE FillShape(_, _, _)
FillShape(shape, raw, todo) ==
    IF todo = {} THEN shape
    ELSE LET key == CHOOSE k \in todo : TRUE
         IN  FillShape(Assign(shape, key, ZodFor(raw[key])), raw, todo \ {key})

\* z.object(shape), line 49: a validator of the shape's own properties
ZObject(shape) == shape.own

buildZodSchema(raw) == ZObject(FillShape(EmptyObject, raw, DOMAIN raw))

\* browser_extract is called with a schema
SchemaInit ==
    /\ Fresh
    /\ args \in Raws
    /\ ret = <<>>

\* extract(), line 157
SchemaBuild ==
    /\ ret = <<>>
    /\ ret' = <<buildZodSchema(args)>>
    /\ UNCHANGED <<args, mgr>>

SchemaNext == SchemaBuild

SchemaSpec == SchemaInit /\ [][SchemaNext]_vars

(***************************************************************************)
(* navigate(), lines 138-144, by itself: the text it returns.  A text is   *)
(* the sequence of its characters; each fixed piece of the template is one *)
(* element.                                                                *)
(***************************************************************************)

MaxUrlLen == 3
MaxTitleLen == 2

\* the texts over `chars` with lengths from `lo` to `hi`
Texts(chars, lo, hi) == UNION {[1..n -> chars] : n \in lo..hi}

Urls == Texts({"u", "/"}, 1, MaxUrlLen)

\* what page.title() can give back
Titles == Texts({"t", "u"}, 0, MaxTitleLen)

\* a variant of Confirmation that adds the title part whatever the title
ConfirmationAlwaysTitle(url, title) ==
    <<"Navigated to ">> \o url \o <<" -- \"">> \o title \o <<"\"">>

\* line 143; the template's dash is written -- here
Confirmation(url, title) ==
    IF title # <<>>
    THEN <<"Navigated to ">> \o url \o <<" -- \"">> \o title \o <<"\"">>
    ELSE <<"Navigated to ">> \o url

\* navigate(url) is called and the page it loads has some title
NavigateInit ==
    /\ Fresh
    /\ args \in [url : Urls, title : Titles]
    /\ ret = <<>>

\* lines 142-143: the title is read back and the text returned
NavigateReturn ==
    /\ ret = <<>>
    /\ ret' = <<Confirmation(args.url, args.title)>>
    /\ UNCHANGED <<args, mgr>>

NavigateNext == NavigateReturn

NavigateSpec == NavigateInit /\ [][NavigateNext]_vars

TypeOK ==
    /\ stagehand \in 0..MaxLaunches
    /\ initPromise \in 0..MaxLaunches
    /\ launches \in 0..MaxLaunches
    /\ \A s \in Sessions : s > launches => pstate[s] = "none"

(***************************************************************************)
(* Steps of a caller, told from the variables alone                        *)
(***************************************************************************)

\* caller c begins an ensure() in this step, directly or as the first
\* statement of an operation
EnsureBegins(c) ==
    /\ pc[c] = "idle"
    /\ \/ pc'[c] \in {"ensure_await", "op_ensure_await", "op_await"}
       \/ out'[c].from \in {"ensure", "op"}

\* caller c begins a close() in this step
CloseBegins(c) ==
    /\ pc[c] = "idle"
    /\ \/ pc'[c] = "close_await"
       \/ out'[c].from = "close"

\* the manager's own state and the sessions
ManagerUnchanged == UNCHANGED <<stagehand, initPromise, launches, pstate, isClosed>>

\* the first initialization has not settled
FirstUnsettled == launches = 0 \/ (launches = 1 /\ pstate[1] = "pending")

\* the callers to whom an ensure() returned a handle in the step just taken
GotHandle == {c \in Callers : out[c].kind = "handle"}

\* the callers to whom a close() returned in the step just taken
ClosedNow == {c \in Callers : out[c].kind \in {"closed", "noop"}}

(***************************************************************************)
(* Claims                                                                  *)
(***************************************************************************)

\* C1: single-flight.  Every ensure() begun while no handle is held and the
\* first initialization has not settled leaves exactly one launch and awaits
\* that one initialization; when it settles, every caller awaiting it gets
\* its one outcome: the first session's handle for all of them (an operation
\* goes on to that session's page), or the first initialization's error for
\* all of them.
SingleFlight ==
    [][ /\ \A c \in Callers :
            (EnsureBegins(c) /\ stagehand = Null /\ FirstUnsettled)
                => /\ launches' = 1 /\ initPromise' = 1
                   /\ on'[c] = 1 /\ pc'[c] \in {"ensure_await", "op_ensure_await"}
        /\ \A c \in Callers :
            (pc[c] \in {"ensure_await", "op_ensure_await"} /\ on[c] = 1 /\ pstate'[1] # pstate[1])
                => /\ pstate'[1] = "fulfilled" =>
                        /\ stagehand' = 1
                        /\ pc[c] = "ensure_await" => out'[c] = Returns(pc[c], "handle", 1)
                        /\ pc[c] = "op_ensure_await" => (pc'[c] = "op_await" /\ on'[c] = 1)
                   /\ pstate'[1] = "rejected" => out'[c] = Returns(pc[c], "error", 1)
                   /\ pstate'[1] \in {"fulfilled", "rejected"}
      ]_vars

\* C1 witness: after one launch, two callers have received the first
\* session's handle from the ensure() each of them was awaiting
SingleFlightWitness ==
    /\ launches = 1
    /\ \E c, d \in Callers :
        /\ c # d
        /\ out[c] = Returns("ensure_await", "handle", 1)
        /\ out[d] = Returns("ensure_await", "handle", 1)

\* C2: failure is not cached.  Once a failed initialization has been
\* delivered to every caller that awaited it, the pending-initialization
\* slot no longer holds it.
FailureNotCached ==
    \A s \in Sessions :
        (pstate[s] = "rejected" /\ \A c \in Callers : on[c] # s) => initPromise # s

\* C3: post-close re-init.  The first ensure() begun after a close() has
\* returned performs a fresh launch.
PostCloseReinit ==
    [][ \A c \in Callers :
            (afterClose /\ EnsureBegins(c)) => launches' = launches + 1 ]_vars

\* C4: closed-session detection.  An ensure() begun while the held handle's
\* session is marked closed discards that handle, launches a new session and
\* awaits it instead of returning; when the new session has started, the
\* ensure() returns the new session, which is not the stale one.
ClosedSessionDetection ==
    [][ /\ \A c \in Callers :
            (EnsureBegins(c) /\ stagehand # Null /\ isClosed[stagehand])
                => /\ stagehand' = Null
                   /\ launches' = launches + 1
                   /\ initPromise' = launches'
                   /\ on'[c] = launches' /\ on'[c] # stagehand
                   /\ pc'[c] \in {"ensure_await", "op_ensure_await"}
        /\ \A c \in Callers :
            (pc[c] = "ensure_await" /\ pc'[c] # pc[c] /\ pstate'[on[c]] = "fulfilled")
                => /\ out'[c] = Returns(pc[c], "handle", on[c])
                   /\ stagehand' = on[c]
      ]_vars

\* C4 witness: the first session was marked closed while it was held, no
\* close() was ever called, and an ensure() has returned the second session
ClosedSessionDetectionWitness ==
    /\ ~everClose
    /\ pstate[1] = "fulfilled" /\ isClosed[1]
    /\ launches = 2 /\ stagehand = 2
    /\ \E c \in Callers : out[c] = Returns("ensure_await", "handle", 2)

\* C5: idempotence of ensure().  An ensure() begun while a handle is held and
\* not marked closed returns that handle in the same step, launches nothing
\* and leaves both slots alone; an ensure() that follows at once on one that
\* returned a handle returns the same handle with no further launch.
EnsureIdempotent ==
    [][ /\ \A c \in Callers :
            (EnsureBegins(c) /\ stagehand # Null /\ ~isClosed[stagehand])
                => /\ ManagerUnchanged
                   /\ pc'[c] \in {"idle", "op_await"}
                   /\ pc'[c] = "idle" => out'[c] = Returns("ensure", "handle", stagehand)
                   /\ pc'[c] = "op_await" => on'[c] = stagehand
        /\ \A c, d \in Callers :
            (d \in GotHandle /\ ~isClosed[out[d].id] /\ EnsureBegins(c))
                => /\ launches' = launches
                   /\ pc'[c] = "idle" => out'[c] = Returns("ensure", "handle", out[d].id)
      ]_vars

\* C5 witness: an ensure() returned the held handle at once, after one launch
EnsureIdempotentWitness ==
    /\ launches = 1 /\ stagehand = 1 /\ initPromise = 1
    /\ \E c \in Callers : out[c] = Returns("ensure", "handle", 1)

\* C6: when close() returns, both slots are empty.
CloseClearsBoth ==
    ClosedNow # {} => (stagehand = Null /\ initPromise = Null)

\* C7: close errors are swallowed.  A close() resuming after the session's
\* close failed returns normally, not with an error, and leaves the handle
\* slot empty, exactly as one resuming after it succeeded.
CloseSwallowsErrors ==
    [][ \A c \in Callers :
            (pc[c] = "close_await" /\ pc'[c] # pc[c])
                => /\ pc'[c] = "idle"
                   /\ out'[c].kind = "closed" /\ out'[c].id = on[c]
                   /\ out'[c].from \in {"close_ok", "close_fail"}
                   /\ stagehand' = Null ]_vars

\* C7 witness: a close() has returned normally after the session's close
\* failed, the session is still not marked closed, and the handle slot is empty
CloseSwallowsErrorsWitness ==
    /\ stagehand = Null
    /\ \E c \in Callers :
        /\ out[c].kind = "closed" /\ out[c].from = "close_fail"
        /\ ~isClosed[out[c].id]

\* C8: close() is idempotent.  A close() begun while no handle is held
\* returns at once, awaits no session's close and leaves the manager and the
\* sessions as they were; so does a close() that follows at once on a close()
\* that returned.
CloseIdempotent ==
    [][ /\ \A c \in Callers :
            (CloseBegins(c) /\ stagehand = Null)
                => /\ out'[c] = Returns("close", "noop", 0)
                   /\ UNCHANGED <<pc, on>>
                   /\ ManagerUnchanged
        /\ \A c \in Callers :
            (ClosedNow # {} /\ CloseBegins(c))
                => /\ out'[c] = Returns("close", "noop", 0)
                   /\ UNCHANGED <<pc, on>>
                   /\ ManagerUnchanged
      ]_vars

\* C8 witness: a close() found no handle and returned while an
\* initialization was still referenced by the pending slot
CloseIdempotentWitness ==
    /\ stagehand = Null /\ initPromise # Null
    /\ \E c \in Callers : out[c] = Returns("close", "noop", 0)

\* C9: at most one initialization is in flight.
AtMostOneInit == Cardinality({s \in Sessions : pstate[s] = "pending"}) <= 1

\* C10: at most one session is started and not closed.
SingletonSession == Cardinality({s \in Sessions : Alive(s)}) <= 1

\* C11: operation errors leave the session intact.  When the page call an
\* operation awaits throws, the operation hands the error to its caller and
\* writes neither slot; an ensure() that follows at once, while the slot
\* still holds the session the operation ran on and that session is not
\* marked closed, returns that session with no launch.
OpErrorKeepsSession ==
    [][ /\ \A c \in Callers :
            (pc[c] = "op_await" /\ pc'[c] # pc[c])
                => /\ pc'[c] = "idle"
                   /\ out'[c].kind \in {"opok", "operr"} /\ out'[c].id = on[c]
                   /\ stagehand' = stagehand /\ initPromise' = initPromise
                   /\ launches' = launches
        /\ \A c, d \in Callers :
            (out[c].kind = "operr" /\ stagehand = out[c].id /\ ~isClosed[stagehand]
                /\ EnsureBegins(d))
                => /\ launches' = launches
                   /\ stagehand' = stagehand /\ initPromise' = initPromise
                   /\ pc'[d] = "idle" => out'[d] = Returns("ensure", "handle", out[c].id)
      ]_vars

\* C11 witness: an operation has just thrown its page call's error and the
\* session it ran on is still the one held
OpErrorKeepsSessionWitness ==
    \E c \in Callers :
        /\ out[c].kind = "operr" /\ out[c].from = "op_await"
        /\ stagehand = out[c].id /\ initPromise = out[c].id
        /\ ~isClosed[stagehand]

\* C17: no partial handle on failure.  When an initialization fails, every
\* caller awaiting it gets that failure, and the handle slot is empty
\* afterwards.
NoHandleAfterFailure ==
    [][ \A s \in Sessions :
            (pstate[s] = "pending" /\ pstate'[s] = "rejected")
                => /\ \A c \in Callers :
                        (pc[c] \in {"ensure_await", "op_ensure_await"} /\ on[c] = s)
                            => (pc'[c] = "idle" /\ out'[c] = Returns(pc[c], "error", s))
                   /\ stagehand' = Null
      ]_vars

Live(s) == pstate[s] \in {"pending", "fulfilled"} /\ ~isClosed[s]

\* C19: no orphaned session.  Every session that was started and is not
\* closed is the one in the handle slot or the one the pending slot refers
\* to; and a close() resuming from its await leaves alone a handle or a
\* pending initialization other than the one it was closing.
NoOrphanedSession ==
    /\ [](\A s \in Sessions : Live(s) => (stagehand = s \/ initPromise = s))
    /\ [][ \A c \in Callers :
            (pc[c] = "close_await" /\ pc'[c] # pc[c])
                => /\ stagehand \notin {Null, on[c]} => stagehand' = stagehand
                   /\ initPromise \notin {Null, on[c]} => initPromise' = initPromise
         ]_vars
\* caller c is suspended in ensure() at `await this.initPromise`
WaitsInEnsure(c) == pc[c] \in {"ensure_await", "op_ensure_await"}

\* C20: when every startup that was begun settles, an ensure() that waits on
\* the pending initialization does not wait for ever: it returns a handle or
\* throws (a call that does not wait returns in the step it was made)
EnsureTerminates == \A c \in Callers : WaitsInEnsure(c) ~> ~WaitsInEnsure(c)

\* two ensure() calls that waited on the same initialization have both
\* returned
EnsureTerminatesWitness ==
    \A c \in Callers : out[c].from = "ensure_await" /\ out[c].kind \in {"handle", "error"}

(***************************************************************************)
(* init() by itself                                                        *)
(***************************************************************************)

\* the options init() constructed the session with
Constructed == (CHOOSE i \in 1..Len(ret) : ret[i].op = "new Stagehand")

\* an optional value is available: set and not empty
Available(v) == v \notin {Undefined, ""}

\* the config value when available, else the environment variable
ConfigElseEnv(c, e) == IF Available(c) THEN c ELSE e

\* both cloud credentials are available, each from the config or else from
\* its environment variable
BothCloudCredentials ==
    /\ Available(ConfigElseEnv(args.config.browserbaseApiKey, args.env.BROWSERBASE_API_KEY))
    /\ Available(ConfigElseEnv(args.config.browserbaseProjectId, args.env.BROWSERBASE_PROJECT_ID))

\* C12: init() uses the cloud backend exactly when both a cloud API key and a
\* cloud project id are available, each taken from the config or else from
\* its environment variable; the cloud path creates no profile directory and
\* the local path creates it before it constructs the session
BackendSelection ==
    ret # <<>> =>
        LET new == Constructed
            opts == ret[new].opts
        IN  /\ opts.env = IF BothCloudCredentials THEN "BROWSERBASE" ELSE "LOCAL"
            /\ opts.env = "BROWSERBASE" =>
                /\ \A i \in 1..Len(ret) : ret[i].op # "fs.mkdirSync"
                /\ opts.apiKey = ConfigElseEnv(args.config.browserbaseApiKey,
                                               args.env.BROWSERBASE_API_KEY)
                /\ opts.projectId = ConfigElseEnv(args.config.browserbaseProjectId,
                                                  args.env.BROWSERBASE_PROJECT_ID)
            /\ opts.env = "LOCAL" =>
                \E i \in 1..(new - 1) :
                    /\ ret[i].op = "fs.mkdirSync"
                    /\ ret[i].path = opts.localBrowserLaunchOptions.userDataDir

\* the cloud backend was chosen on a key from the config and a project id
\* from the environment
BackendSelectionWitness ==
    /\ ret # <<>>
    /\ ret[Constructed].opts.env = "BROWSERBASE"
    /\ ret[Constructed].opts.apiKey = "cfg.browserbaseApiKey"
    /\ ret[Constructed].opts.projectId = "$BROWSERBASE_PROJECT_ID"

\* C15: the model API key passed to the session is the config value if set,
\* else ANTHROPIC_API_KEY, else OPENAI_API_KEY; when none of the three is
\* set, the session is constructed without an API key option
ModelApiKeyPrecedence ==
    ret # <<>> =>
        LET opts == ret[Constructed].opts
            c == args.config.modelApiKey
            a == args.env.ANTHROPIC_API_KEY
            o == args.env.OPENAI_API_KEY
        IN  /\ Available(c) => opts.modelClientOptions = [apiKey |-> c]
            /\ ~Available(c) /\ Available(a) => opts.modelClientOptions = [apiKey |-> a]
            /\ ~Available(c) /\ ~Available(a) /\ Available(o)
                   => opts.modelClientOptions = [apiKey |-> o]
            /\ ~Available(c) /\ ~Available(a) /\ ~Available(o)
                   => "modelClientOptions" \notin DOMAIN opts

\* with no key in the config and both environment variables set, the
\* session got the key of ANTHROPIC_API_KEY
ModelApiKeyPrecedenceWitness ==
    /\ ret # <<>>
    /\ ~Available(args.config.modelApiKey)
    /\ Available(args.env.OPENAI_API_KEY)
    /\ ret[Constructed].opts.modelClientOptions.apiKey = "$ANTHROPIC_API_KEY"

\* the providers the claim counts as built in
BuiltInProviders == {"anthropic", "openai", "google"}

\* the model string names a provider before a separator, and it is not a
\* built-in one
UnknownProvider(model) == Len(model) > 2 /\ model[2] = "/" /\ model[1] \notin BuiltInProviders

\* C13: for a model string with a built-in provider or without a separator
\* init() loads no adapter; for a model string with an unknown provider it
\* attempts to load that provider's adapter (and fails with a configuration
\* error naming the package when the adapter is not there)
ProviderResolution ==
    ret # <<>> =>
        /\ ~UnknownProvider(args.config.model)
               => \A i \in 1..Len(ret) : ret[i].op # "import"
        /\ UnknownProvider(args.config.model)
               => \E i \in 1..Len(ret) :
                      /\ ret[i].op = "import"
                      /\ i < Constructed

(***************************************************************************)
(* buildZodSchema() and navigate() by themselves                           *)
(***************************************************************************)

\* the primitive type the map asks for: the one named, or string for a name
\* that is none of the three
Primitive(type) == IF type \in {"number", "boolean"} THEN type ELSE "string"

\* the values a validator may be given: per field present, the primitive
\* type of what the field holds
Values == UNION {[S -> {"string", "number", "boolean"}] : S \in SUBSET FieldNames}

\* what a Zod type accepts
Holds(zod) ==
    CASE zod = "ZodString" -> "string"
      [] zod = "ZodNumber" -> "number"
      [] zod = "ZodBoolean" -> "boolean"

\* the validator accepts the value: every field of it is present with the
\* type it asks for
Accepts(schema, v) ==
    \A k \in DOMAIN schema : k \in DOMAIN v /\ v[k] = Holds(schema[k])

\* C14: for every map of field names to type names, the validator
\* buildZodSchema returns has exactly the map's field names, each typed as
\* the map says and as a string for an unrecognized type name, and it accepts
\* a value only if every field of the map is present with that type
SchemaMirrorsMap ==
    ret # <<>> =>
        /\ DOMAIN ret[1] = DOMAIN args
        /\ \A k \in DOMAIN args : Holds(ret[1][k]) = Primitive(args[k])
        /\ \A v \in Values :
               Accepts(ret[1], v)
                   => \A k \in DOMAIN args : k \in DOMAIN v /\ v[k] = Primitive(args[k])

\* text `part` occurs in `text`
Contains(text, part) ==
    \E i \in 0..(Len(text) - Len(part)) : SubSeq(text, i + 1, i + Len(part)) = part

\* C16: the text navigate(url) returns contains the URL and the title when
\* the title read back is not empty, and the URL with no title part after it
\* when the title is empty
NavigateText ==
    ret # <<>> =>
        /\ Contains(ret[1], args.url)
        /\ args.title # <<>> => Contains(ret[1], args.title \o <<"\"">>)
        /\ args.title = <<>> => ret[1] = <<"Navigated to ">> \o args.url

\* navigate returned a text for a page with a title
NavigateTextWitness ==
    /\ ret # <<>>
    /\ Len(args.title) = MaxTitleLen
    /\ Contains(ret[1], args.title)

====

